---- MODULE Spec2Model ----
(***************************************************************************)
(* Mutation testing of python-testing-mcp: the mutation operators          *)
(* (tools/mutation/operators.py), the SafeMutationEngine session           *)
(* (tools/mutation/mutator.py), the MutationTestRunner                     *)
(* (tools/mutation/runner.py), the driver in tools/mutation/tool.py and    *)
(* the older MutationEngine (utils/mutation_engine.py) with its executor   *)
(* loop (utils/mutation_test_executor.py).                                 *)
(*                                                                         *)
(* The file system is modelled by what the code can observe of it: the     *)
(* original file (content, modification time), the engine's scratch        *)
(* directory and the files in it, the per-mutant sandbox directories and   *)
(* the files in them, the test files lying around the original file, the   *)
(* process's working directory and the processes a test command started.   *)
(***************************************************************************)
EXTENDS Integers, Sequences, FiniteSets, TLC

(***************************************************************************)
(* Bounds of the model.                                                    *)
(***************************************************************************)
\* candidates (mutation point x operator x replacement) of the files the
\* whole driver is run on; generate_mutants alone is run on every file
MaxCands == 2
\* largest max_mutants a caller passes
MaxMutants == 2
\* explicit engine.cleanup() calls a caller makes besides the one of __exit__
MaxCleanups == 2
\* mutations the older executor tests in one run
MaxMutations == 3
\* integer literals the operators are applied to: -MaxInt..MaxInt
MaxInt == 3
\* longest string literal the operators are applied to
MaxStrLen == 2
\* words of a line of test output
MaxWords == 3
\* discovered test files that are removed during a run
MaxVanished == 1

(***************************************************************************)
(* File names.  A basename is its stem cut into words, the extension .py   *)
(* being common to every file the code looks at: testcalc.py is            *)
(* <<"test", "calc">>, test_calc.py is <<"test", "_", "calc">>.            *)
(***************************************************************************)
OrigNames == { <<"calc">>, <<"test", "calc">> }

\* what lies around the original file, besides the original itself
TestUniverse ==
    { [dir |-> "src",   stem |-> <<"test", "_", "calc">>],
      [dir |-> "tests", stem |-> <<"test", "_", "calc">>] }

\* a file of the source directory no pattern matches
OtherFiles == { [dir |-> "src", stem |-> <<"helper">>] }

(***************************************************************************)
(* File contents.                                                          *)
(***************************************************************************)
Original == [kind |-> "original", n |-> 0]
FullSource(c) == [kind |-> "full", n |-> c]      \* ast.unparse(mutated_tree)
Fragment(c) == [kind |-> "fragment", n |-> c]  \* ast.unparse(mutated_node)
Partial(c) == [kind |-> "partial", n |-> c]   \* a write that did not finish
TestContent(f) == [kind |-> f.dir, n |-> Len(f.stem)]

\* MutationStatus
KILLED == "killed"
SURVIVED == "survived"
TIMEOUT == "timeout"
ERROR == "error"

(***************************************************************************)
(* Syntax trees (the part of Python's ast the operators look at) and the   *)
(* mutation operators of tools/mutation/operators.py.                      *)
(*                                                                         *)
(* A node has a type, its operator tokens (ops of a Compare, op of a       *)
(* BinOp, BoolOp or UnaryOp), an identifier (Name), a value (Constant) and *)
(* its child nodes.  A string is the sequence of its characters.           *)
(***************************************************************************)
NoValue == [k |-> "none", i |-> 0, s |-> <<>>, b |-> FALSE]
IntV(n) == [k |-> "int", i |-> n, s |-> <<>>, b |-> FALSE]
StrV(s) == [k |-> "str", i |-> 0, s |-> s, b |-> FALSE]
BoolV(b) == [k |-> "bool", i |-> 0, s |-> <<>>, b |-> b]

Node(type, ops, id, value, kids) ==
    [type |-> type, ops |-> ops, id |-> id, value |-> value, kids |-> kids]

Name(id) == Node("Name", <<>>, id, NoValue, <<>>)
Constant(v) == Node("Constant", <<>>, "", v, <<>>)
Arg(id) == Node("arg", <<>>, id, NoValue, <<>>)
Compare(left, ops, comparators) ==
    Node("Compare", ops, "", NoValue, <<left>> \o comparators)
BinOp(left, op, right) == Node("BinOp", <<op>>, "", NoValue, <<left, right>>)
BoolOp(op, values) == Node("BoolOp", <<op>>, "", NoValue, values)
UnaryOp(op, operand) == Node("UnaryOp", <<op>>, "", NoValue, <<operand>>)
Stmt(type, kids) == Node(type, <<>>, "", NoValue, kids)
Pass == Stmt("Pass", <<>>)

\* no node: the operators are not being applied
NoNode == Stmt("none", <<>>)

\* list(set(xs)): the elements once each, in an order the code does not choose
RECURSIVE ListsOfSet(_)
ListsOfSet(S) ==
    IF S = {} THEN {<<>>}
    ELSE UNION {{<<x>> \o l : l \in ListsOfSet(S \ {x})} : x \in S}

\* list(set(xs)) of integers: hash(int) is the same in every process, so the
\* interpreter lists a given set of integers in one order, whichever it is
IntList(S) == CHOOSE l \in ListsOfSet(S) : TRUE

Range(xs) == {xs[i] : i \in DOMAIN xs}

\* xs[:n]
Prefix(xs, n) == SubSeq(xs, 1, IF Len(xs) < n THEN Len(xs) ELSE n)

\* ArithmeticOperatorMutator.OPERATOR_MUTATIONS
ArithmeticMutations ==
    [Add |-> <<"Sub", "Mult">>, Sub |-> <<"Add", "Mult">>,
     Mult |-> <<"Add", "Sub", "Div">>, Div |-> <<"Mult", "FloorDiv">>,
     FloorDiv |-> <<"Div", "Mod">>, Mod |-> <<"FloorDiv", "Mult">>,
     Pow |-> <<"Mult", "Div">>]

\* ComparisonOperatorMutator.OPERATOR_MUTATIONS
ComparisonMutations ==
    [Eq |-> <<"NotEq", "Lt", "Gt">>, NotEq |-> <<"Eq">>,
     Lt |-> <<"LtE", "Gt", "Eq">>, LtE |-> <<"Lt", "GtE", "NotEq">>,
     Gt |-> <<"GtE", "Lt", "Eq">>, GtE |-> <<"Gt", "LtE", "NotEq">>]

\* ConditionalBoundaryMutator.mutate: the if/elif chain
BoundaryMutations ==
    [Lt |-> "LtE", LtE |-> "Lt", Gt |-> "GtE", GtE |-> "Gt"]

\* NumberMutator.mutate: the list "mutations" before list(set(...))
NumberMutations(v) ==
    IF v = 0 THEN <<1, -1>>
    ELSE IF v = 1 THEN <<0, 2, -1>>
    ELSE IF v = -1 THEN <<0, 1, -2>>
    ELSE <<v + 1, v - 1, 0, 1, -1>>

\* the letters of the model's strings, lower case and upper case
Lowers == <<"a", "m", "n", "t", "u", "x">>
Uppers == <<"A", "M", "N", "T", "U", "X">>

UpperChar(c) ==
    IF c \in Range(Lowers) THEN Uppers[CHOOSE i \in DOMAIN Lowers : Lowers[i] = c]
    ELSE c
LowerChar(c) ==
    IF c \in Range(Uppers) THEN Lowers[CHOOSE i \in DOMAIN Uppers : Uppers[i] = c]
    ELSE c

\* str.upper, str.lower, str.islower
StrUpper(s) == [i \in DOMAIN s |-> UpperChar(s[i])]
StrLower(s) == [i \in DOMAIN s |-> LowerChar(s[i])]
IsLower(s) ==
    /\ \E i \in DOMAIN s : s[i] \in Range(Lowers)
    /\ \A i \in DOMAIN s : s[i] \notin Range(Uppers)

\* the text "mutant"
MutantText == <<"m", "u", "t", "a", "n", "t">>

\* StringMutator.mutate: the list "mutations" before list(set(...))
StringMutations(s) ==
    IF s = <<>> THEN << MutantText, <<"X">>, <<" ">> >>
    ELSE IF Len(s) = 1 THEN << <<>>, <<"X", "X">>, StrUpper(s), StrLower(s) >>
    ELSE << <<>>, MutantText, SubSeq(s, 1, Len(s) - 1), s \o <<"X">>,
            IF IsLower(s) THEN StrUpper(s) ELSE StrLower(s) >>

\* most variants StringMutator keeps: mutations[:3]
StringLimit == 3

\* MUTATION_OPERATORS, by name and in the registry's order
MUTATION_OPERATORS ==
    << "ArithmeticOperator", "ComparisonOperator", "LogicalOperator",
       "UnaryOperator", "Boolean", "Number", "String", "ConditionalBoundary",
       "StatementDeletion" >>

\* can_mutate of the operator named o
CanMutate(o, node) ==
    CASE o = "ArithmeticOperator" ->
           node.type = "BinOp" /\ node.ops[1] \in DOMAIN ArithmeticMutations
      [] o = "ComparisonOperator" ->
           /\ node.type = "Compare"
           /\ Len(node.ops) = 1
           /\ node.ops[1] \in DOMAIN ComparisonMutations
      [] o = "LogicalOperator" -> node.type = "BoolOp"
      [] o = "UnaryOperator" -> node.type = "UnaryOp"
      [] o = "Boolean" -> node.type = "Constant" /\ node.value.k = "bool"
      [] o = "Number" -> node.type = "Constant" /\ node.value.k = "int"
      [] o = "String" -> node.type = "Constant" /\ node.value.k = "str"
      [] o = "ConditionalBoundary" ->
           /\ node.type = "Compare"
           /\ Len(node.ops) = 1
           /\ node.ops[1] \in DOMAIN BoundaryMutations
      [] o = "StatementDeletion" ->
           node.type \in {"Return", "Assign", "AugAssign", "Expr"}

\* a copy of the node with its first operator replaced
WithOp(node, op) == [node EXCEPT !.ops[1] = op]

\* a copy of the Constant with another value
WithValue(node, v) == [node EXCEPT !.value = v]

\* UnaryOperatorMutator.mutate
UnaryMutate(node) ==
    <<node.kids[1]>> \o
    (IF node.ops[1] = "UAdd" THEN <<WithOp(node, "USub")>>
     ELSE IF node.ops[1] = "USub" THEN <<WithOp(node, "UAdd")>>
     ELSE <<>>)

\* a NumberMutator that keeps the original value among the variants
NumberMutateKeepsOriginal(node) ==
    {[i \in DOMAIN l |-> WithValue(node, IntV(l[i]))] :
        l \in {IntList(Range(NumberMutations(node.value.i)) \cup {node.value.i})}}

\* NumberMutator.mutate: the list it returns (as a set of one list)
NumberMutate(node) ==
    {[i \in DOMAIN l |-> WithValue(node, IntV(l[i]))] :
        l \in {IntList(Range(NumberMutations(node.value.i)) \ {node.value.i})}}

\* a StringMutator that does not limit the variants
StringMutateUnlimited(node) ==
    {[i \in DOMAIN l |-> WithValue(node, StrV(l[i]))] :
        l \in ListsOfSet(Range(StringMutations(node.value.s)) \ {node.value.s})}

\* StringMutator.mutate: every list it may return
StringMutate(node) ==
    {[i \in DOMAIN l |-> WithValue(node, StrV(l[i]))] :
        l \in {Prefix(m, StringLimit) :
                m \in ListsOfSet(Range(StringMutations(node.value.s))
                                   \ {node.value.s})}}

\* a ComparisonOperatorMutator whose table maps != to <, > as well
ComparisonMutateSymmetric(node) ==
    LET alt == IF node.ops[1] = "NotEq" THEN <<"Eq", "Lt", "Gt">>
               ELSE ComparisonMutations[node.ops[1]]
    IN  [i \in DOMAIN alt |-> WithOp(node, alt[i])]

\* ComparisonOperatorMutator.mutate
ComparisonMutate(node) ==
    LET alt == ComparisonMutations[node.ops[1]]
    IN  [i \in DOMAIN alt |-> WithOp(node, alt[i])]

\* mutate of the operator named o: every list of variants it may return
Mutate(o, node) ==
    IF ~CanMutate(o, node) THEN {<<>>}
    ELSE CASE o = "ArithmeticOperator" ->
                {[i \in DOMAIN ArithmeticMutations[node.ops[1]] |->
                     WithOp(node, ArithmeticMutations[node.ops[1]][i])]}
           [] o = "ComparisonOperator" -> {ComparisonMutate(node)}
           [] o = "LogicalOperator" ->
                IF node.ops[1] = "And" THEN {<<WithOp(node, "Or")>>}
                ELSE IF node.ops[1] = "Or" THEN {<<WithOp(node, "And")>>}
                ELSE {<<>>}
           [] o = "UnaryOperator" -> {UnaryMutate(node)}
           [] o = "Boolean" -> {<<WithValue(node, BoolV(~node.value.b))>>}
           [] o = "Number" -> NumberMutate(node)
           [] o = "String" -> StringMutate(node)
           [] o = "ConditionalBoundary" ->
                {<<WithOp(node, BoundaryMutations[node.ops[1]])>>}
           [] o = "StatementDeletion" -> {<<Pass>>}

\* get_applicable_operators(node), in the registry's order
get_applicable_operators(node) ==
    SelectSeq(MUTATION_OPERATORS, LAMBDA o : CanMutate(o, node))

(***************************************************************************)
(* Source files.  A file that parses is the list of its nodes that carry a *)
(* position, in the order of ast.walk (breadth first); each entry has the  *)
(* node, the names of the FunctionDefs around it (outermost first), its    *)
(* lineno and col_offset, the entry of its parent (0 under the Module) and *)
(* the place it stands in:                                                 *)
(*   "stmt"            a statement of a body                               *)
(*   "expr"            an expression                                       *)
(*   "pattern"         the value of a case pattern                         *)
(*   "pattern_operand" the operand of the sign of such a value             *)
(***************************************************************************)
Entry(node, funcs, line, col, ctx, parent) ==
    [node |-> node, funcs |-> funcs, line |-> line, col |-> col, ctx |-> ctx,
     parent |-> parent]

\* an empty file
SrcEmpty == <<>>

\* def f(a):
\*     return a
SrcReturn ==
    << Entry(Stmt("FunctionDef", <<>>), <<"f">>, 1, 0, "stmt", 0),
       Entry(Stmt("Return", <<Name("a")>>), <<"f">>, 2, 4, "stmt", 1),
       Entry(Arg("a"), <<"f">>, 1, 6, "expr", 1),
       Entry(Name("a"), <<"f">>, 2, 11, "expr", 2) >>

\* not x
SrcNot ==
    << Entry(Stmt("Expr", <<UnaryOp("Not", Name("x"))>>), <<>>, 1, 0, "stmt", 0),
       Entry(UnaryOp("Not", Name("x")), <<>>, 1, 0, "expr", 1),
       Entry(Name("x"), <<>>, 1, 4, "expr", 2) >>

\* -x
SrcNeg ==
    << Entry(Stmt("Expr", <<UnaryOp("USub", Name("x"))>>), <<>>, 1, 0, "stmt", 0),
       Entry(UnaryOp("USub", Name("x")), <<>>, 1, 0, "expr", 1),
       Entry(Name("x"), <<>>, 1, 1, "expr", 2) >>

\* def f(a, b):
\*     return a < b
\* def g(a):
\*     return a
\* not x
SrcFunctions ==
    << Entry(Stmt("FunctionDef", <<>>), <<"f">>, 1, 0, "stmt", 0),
       Entry(Stmt("FunctionDef", <<>>), <<"g">>, 3, 0, "stmt", 0),
       Entry(Stmt("Expr", <<UnaryOp("Not", Name("x"))>>), <<>>, 5, 0, "stmt", 0),
       Entry(Stmt("Return", <<Compare(Name("a"), <<"Lt">>, <<Name("b")>>)>>),
             <<"f">>, 2, 4, "stmt", 1),
       Entry(Stmt("Return", <<Name("a")>>), <<"g">>, 4, 4, "stmt", 2),
       Entry(UnaryOp("Not", Name("x")), <<>>, 5, 0, "expr", 3),
       Entry(Arg("a"), <<"f">>, 1, 6, "expr", 1),
       Entry(Arg("b"), <<"f">>, 1, 9, "expr", 1),
       Entry(Compare(Name("a"), <<"Lt">>, <<Name("b")>>), <<"f">>, 2, 11,
             "expr", 4),
       Entry(Arg("a"), <<"g">>, 3, 6, "expr", 2),
       Entry(Name("a"), <<"g">>, 4, 11, "expr", 5),
       Entry(Name("x"), <<>>, 5, 4, "expr", 6),
       Entry(Name("a"), <<"f">>, 2, 11, "expr", 9),
       Entry(Name("b"), <<"f">>, 2, 15, "expr", 9) >>

\* def f(x):
\*     match x:
\*         case -1:
\*             pass
SrcMatch ==
    << Entry(Stmt("FunctionDef", <<>>), <<"f">>, 1, 0, "stmt", 0),
       Entry(Stmt("Match", <<>>), <<"f">>, 2, 4, "stmt", 1),
       Entry(Arg("x"), <<"f">>, 1, 6, "expr", 1),
       Entry(Name("x"), <<"f">>, 2, 10, "expr", 2),
       Entry(Stmt("MatchValue", <<>>), <<"f">>, 3, 13, "stmt", 2),
       Entry(Pass, <<"f">>, 4, 12, "stmt", 2),
       Entry(UnaryOp("USub", Constant(IntV(1))), <<"f">>, 3, 13, "pattern", 5),
       Entry(Constant(IntV(1)), <<"f">>, 3, 14, "pattern_operand", 7) >>

\* a + b + c
SrcSum ==
    << Entry(Stmt("Expr", <<BinOp(BinOp(Name("a"), "Add", Name("b")), "Add",
                                  Name("c"))>>), <<>>, 1, 0, "stmt", 0),
       Entry(BinOp(BinOp(Name("a"), "Add", Name("b")), "Add", Name("c")),
             <<>>, 1, 0, "expr", 1),
       Entry(BinOp(Name("a"), "Add", Name("b")), <<>>, 1, 0, "expr", 2),
       Entry(Name("c"), <<>>, 1, 8, "expr", 2),
       Entry(Name("a"), <<>>, 1, 0, "expr", 3),
       Entry(Name("b"), <<>>, 1, 4, "expr", 3) >>

\* def outer():
\*     def inner(a):
\*         return not a
SrcNested ==
    << Entry(Stmt("FunctionDef", <<>>), <<"outer">>, 1, 0, "stmt", 0),
       Entry(Stmt("FunctionDef", <<>>), <<"outer", "inner">>, 2, 4, "stmt", 1),
       Entry(Stmt("Return", <<UnaryOp("Not", Name("a"))>>),
             <<"outer", "inner">>, 3, 8, "stmt", 2),
       Entry(Arg("a"), <<"outer", "inner">>, 2, 14, "expr", 2),
       Entry(UnaryOp("Not", Name("a")), <<"outer", "inner">>, 3, 15, "expr", 3),
       Entry(Name("a"), <<"outer", "inner">>, 3, 19, "expr", 5) >>

\* s = 'ab'
SrcString ==
    << Entry(Stmt("Assign", <<Name("s"), Constant(StrV(<<"a", "b">>))>>),
             <<>>, 1, 0, "stmt", 0),
       Entry(Name("s"), <<>>, 1, 0, "expr", 1),
       Entry(Constant(StrV(<<"a", "b">>)), <<>>, 1, 4, "expr", 1) >>

\* the files of the model
Trees ==
    {SrcEmpty, SrcReturn, SrcNot, SrcNeg, SrcFunctions, SrcMatch, SrcSum,
     SrcNested, SrcString}

\* target_functions and operator_names a caller passes ({} is None or [])
TargetChoices == {{}, {"f"}, {"g"}, {"inner"}}
OperatorChoices == {{}, {"ConditionalBoundary", "UnaryOperator"}, {"Number"}}

\* None, as _find_containing_function returns it
NoFunction == "<none>"

\* _find_containing_function: the first FunctionDef of ast.walk that holds
\* the node, which is the outermost one
find_containing_function(e) ==
    IF e.funcs = <<>> THEN NoFunction ELSE e.funcs[1]

\* MutationPoint.function_name: function_name or "module_level"
FunctionName(e) ==
    IF find_containing_function(e) = NoFunction THEN "module_level"
    ELSE find_containing_function(e)

\* the function a node belongs to: the innermost FunctionDef around it
InnermostFunctionName(e) ==
    IF e.funcs = <<>> THEN "module_level" ELSE e.funcs[Len(e.funcs)]

\* find_mutation_points that ignores target_functions
find_mutation_pointsUnfiltered(t, tf) ==
    SelectSeq([i \in 1..Len(t) |-> i],
              LAMBDA i : get_applicable_operators(t[i].node) # <<>>)

\* find_mutation_points: the entries (by index) that become mutation points
find_mutation_points(t, tf) ==
    SelectSeq([i \in 1..Len(t) |-> i],
              LAMBDA i :
                 /\ (tf # {} => find_containing_function(t[i]) \in tf)
                 /\ get_applicable_operators(t[i].node) # <<>>)

\* generate_mutants' "if operator_names": the operators kept for a point
FilteredOperators(node, on) ==
    SelectSeq(get_applicable_operators(node), LAMBDA o : on = {} \/ o \in on)

\* whether variant j of an operator's list is a node object of the tree it
\* was given: UnaryOperatorMutator appends node.operand itself, every other
\* variant is a deepcopy of the node or a new node
SharesInput(o, j) == o = "UnaryOperator" /\ j = 1

\* the candidates of one point and one of its operators, for every list
\* operator.mutate may return
PointCandidates(t, p, o) ==
    {[j \in DOMAIN l |->
        [point |-> p, operator_name |-> o,
         function_name |-> FunctionName(t[p]), mutated_node |-> l[j],
         shared |-> SharesInput(o, j)]] :
       l \in Mutate(o, t[p].node)}

\* _nodes_match: same type, same lineno and col_offset, and the same value
\* for a Constant, the same operator for a BinOp, the same operators for a
\* Compare
nodes_match(e1, e2) ==
    /\ e1.node.type = e2.node.type
    /\ e1.line = e2.line
    /\ e1.col = e2.col
    /\ e1.node.type = "Constant" => e1.node.value = e2.node.value
    /\ e1.node.type \in {"BinOp", "Compare"} => e1.node.ops = e2.node.ops

\* a _replace_node_in_tree that finds the node by its identity
replace_node_in_treeByIdentity(t, p) == p

\* _replace_node_in_tree on a copy of tree t for the target t[p]: the entry
\* that is replaced, the first one of ast.walk's order that _nodes_match
\* accepts (0 when there is none)
replace_node_in_tree(t, p) ==
    IF \E i \in 1..Len(t) : nodes_match(t[i], t[p])
    THEN CHOOSE i \in 1..Len(t) :
            /\ nodes_match(t[i], t[p])
            /\ \A j \in 1..(i - 1) : ~nodes_match(t[j], t[p])
    ELSE 0

\* the entry of the operand of the UnaryOp of entry p
OperandOf(t, p) == CHOOSE i \in 1..Len(t) : t[i].parent = p

\* _replace_node_in_tree's "replacement_node.lineno = target_node.lineno"
\* and col_offset: the engine's tree after a replacement for the target of
\* entry p; a replacement that is a node of that tree (shared) is itself
\* given the target's position
PositionCopied(t, p, shared) ==
    IF shared
    THEN [t EXCEPT ![OperandOf(t, p)].line = t[p].line,
                   ![OperandOf(t, p)].col = t[p].col]
    ELSE t

\* the candidates of one point: its operators in order
RECURSIVE OperatorCandidates(_, _, _)
OperatorCandidates(t, p, os) ==
    IF os = <<>> THEN {<<>>}
    ELSE {h \o r : h \in PointCandidates(t, p, Head(os)),
                   r \in OperatorCandidates(t, p, Tail(os))}

\* the candidates of generate_mutants' three loops, in the order the loops
\* reach them, for every order the operators may return their variants in
RECURSIVE CandidateLists(_, _, _)
CandidateLists(t, ps, on) ==
    IF ps = <<>> THEN {<<>>}
    ELSE {h \o r :
            h \in OperatorCandidates(t, Head(ps),
                                     FilteredOperators(t[Head(ps)].node, on)),
            r \in CandidateLists(t, Tail(ps), on)}

\* how many candidates a file offers
CandidateCount(t, tf, on) ==
    Len(CHOOSE l \in CandidateLists(t, find_mutation_points(t, tf), on) : TRUE)

\* whether Python parses the text ast.unparse writes for a tree in which the
\* node of entry e is replaced by r
ParsesReplaced(e, r) ==
    CASE e.ctx = "pattern" ->
           \/ r.type = "Constant"
           \/ (r.type = "UnaryOp" /\ r.ops[1] = "USub"
               /\ r.kids[1].type = "Constant" /\ r.kids[1].value.i >= 0)
      [] e.ctx = "pattern_operand" ->
           r.type = "Constant" /\ r.value.i >= 0
      [] OTHER -> TRUE

VARIABLES
    pc,            \* position of the driver
    origName,      \* basename of the original file
    parses,        \* whether the original file is valid Python
    orig,          \* the original file: [content, mtime]
    disk,          \* test files lying around the original file
    tree,          \* the original file's nodes, when it parses
    target_functions, \* generate_mutants(target_functions=...)
    operator_names,   \* generate_mutants(operator_names=...)
    numCands,      \* candidates the original file offers
    cands,         \* the candidates in the order generate_mutants meets them
    parsed,        \* the tree analyze_file returned, as the engine holds it
    max_mutants,   \* generate_mutants(max_mutants=...)
    session,       \* "none", "open", "exited": the with-block of the engine
    temp_dir,      \* SafeMutationEngine.temp_dir (FALSE is None)
    temp_files,    \* SafeMutationEngine.temp_files
    scratchExists, \* the scratch directory is on disk
    scratch,       \* files in the scratch directory: file id -> content
    ci,            \* next candidate of generate_mutants' loops
    mutants,       \* the list generate_mutants builds
    cleanups,      \* cleanup() calls made so far
    test_files,    \* what _discover_test_files returned
    mi,            \* index of the mutant under test
    envDirs,       \* sandbox directories on disk (by mutant index)
    envFiles,      \* files of each sandbox: mutant index -> (stem -> content)
    cwd,           \* working directory: 0 the caller's, i the sandbox of mutant i
    running,       \* processes started by test commands and still alive
    status,        \* status of the dict _execute_tests returns
    results,       \* results of run_mutation_tests
    outcomes,      \* what happened to each tested mutant (one per result)
    launches,      \* test commands launched so far
    report,        \* the MutationTestReport returned
    lpc,           \* MutationEngine/MutationTestExecutor: position
    lmutations,    \* mutations_to_test (their number)
    lidx,          \* mutation under test
    backup,        \* original_content of run_tests_against_mutation
    lpassed,       \* test_result["passed"] of the mutation under test
    lcommand,      \* run_full_mutation_testing was given a test_command
    lresults,      \* statuses collected by run_full_mutation_testing
    node,          \* the node an operator is applied to
    applied,       \* the operator applied to it ("none" before)
    mutated        \* the list its mutate returned

engineVars == <<session, temp_dir, temp_files, scratchExists, scratch, ci,
                mutants, cleanups>>
runnerVars == <<test_files, mi, envDirs, envFiles, cwd, running, status,
                results, outcomes, launches, report>>
inputVars == <<origName, parses, disk, tree, target_functions, operator_names,
               numCands, max_mutants>>
opVars == <<node, applied, mutated>>
legacyVars == <<lpc, lmutations, lidx, backup, lpassed, lcommand, lresults>>
vars == <<pc, orig, inputVars, cands, parsed, engineVars, runnerVars,
          legacyVars, opVars>>

EmptyFiles == [x \in {} |-> Original]

NoReport == [total_mutants |-> 0, results |-> <<>>, made |-> FALSE]

(***************************************************************************)
(* SafeMutationEngine                                                      *)
(***************************************************************************)

\* __init__ (and the state before any operation)
InitCommon ==
    /\ origName \in OrigNames
    /\ parses \in BOOLEAN
    /\ orig = [content |-> Original, mtime |-> 0]
    /\ disk \in SUBSET TestUniverse
    /\ tree \in IF parses THEN Trees ELSE {SrcEmpty}
    /\ target_functions \in TargetChoices
    /\ operator_names \in OperatorChoices
    /\ numCands = CandidateCount(tree, target_functions, operator_names)
    /\ cands = <<>>
    /\ parsed = <<>>
    /\ max_mutants \in 0..MaxMutants
    /\ session = "none"
    /\ temp_dir = FALSE
    /\ temp_files = {}
    /\ scratchExists = FALSE
    /\ scratch = EmptyFiles
    /\ ci = 1
    /\ mutants = <<>>
    /\ cleanups = 0
    /\ test_files = {}
    /\ mi = 1
    /\ envDirs = {}
    /\ envFiles = [i \in {} |-> EmptyFiles]
    /\ cwd = 0
    /\ running = {}
    /\ status = "none"
    /\ results = <<>>
    /\ outcomes = <<>>
    /\ launches = 0
    /\ report = NoReport
    /\ lmutations = 0
    /\ lidx = 1
    /\ backup = [set |-> FALSE, content |-> Original]
    /\ lpassed = "none"
    /\ lcommand \in BOOLEAN
    /\ lresults = <<>>
    /\ applied = "none"
    /\ mutated = <<>>

Init ==
    /\ InitCommon
    /\ target_functions = {}
    /\ operator_names = {}
    /\ numCands <= MaxCands
    /\ node = NoNode
    /\ lcommand = FALSE
    /\ pc = "ready"
    /\ lpc = "off"

\* __enter__: tempfile.mkdtemp(prefix="mutation_test_")
Enter ==
    /\ pc = "ready"
    /\ session = "none"
    /\ session' = "open"
    /\ temp_dir' = TRUE
    /\ scratchExists' = TRUE
    /\ UNCHANGED <<pc, orig, inputVars, cands, parsed, opVars, temp_files,
                   scratch, ci, mutants, cleanups, runnerVars, legacyVars>>

\* os.unlink of every tracked file that exists
UnlinkTracked(files) ==
    [f \in DOMAIN files \ temp_files |-> files[f]]

\* os.rmdir(temp_dir): removes the directory only when it is empty
Rmdir(exists, files) ==
    IF temp_dir /\ exists /\ DOMAIN files = {} THEN FALSE ELSE exists

\* cleanup(): the changes to the engine and to the scratch directory
CleanupEffect ==
    /\ scratch' = UnlinkTracked(scratch)
    /\ scratchExists' = Rmdir(scratchExists, UnlinkTracked(scratch))
    /\ temp_files' = {}
    /\ temp_dir' = FALSE
    /\ cleanups' = cleanups + 1

\* generate_mutants up to its loops: analyze_file, which raises when the
\* file does not parse, find_mutation_points and the operator filter
AnalyzeFile ==
    /\ pc = "ready"
    /\ pc' = IF parses THEN "gen" ELSE "raised"
    /\ cands' \in IF parses
                 THEN CandidateLists(tree,
                                     find_mutation_points(tree, target_functions),
                                     operator_names)
                 ELSE {cands}
    /\ parsed' = tree
    /\ UNCHANGED <<orig, inputVars, opVars, engineVars, runnerVars,
                   legacyVars>>

\* what building one candidate can come to
Builds == {"ok", "no_match", "build_exc", "create_exc", "write_exc"}

\* _create_temp_file: the file it leaves in the scratch directory
TempFileWritten(c, how) ==
    IF how = "ok" THEN (c :> FullSource(c)) @@ scratch
    ELSE IF how = "write_exc" THEN (c :> Partial(c)) @@ scratch
    ELSE scratch

\* _create_temp_file: temp_files.add, reached only after a complete write
TempFileTracked(c, how) ==
    IF how = "ok" THEN temp_files \cup {c} ELSE temp_files

\* str(uuid.uuid4())[:8]: a prefix drawn before, or one not drawn before
\* (prefixes are numbered in the order of their first draw)
MutantIds ==
    1..(Cardinality({mutants[i].id : i \in DOMAIN mutants}) + 1)

\* the Mutant _create_mutant returns
NewMutant(c, id) ==
    [id |-> id, cand |-> c, temp_file_path |-> c,
     operator_name |-> cands[c].operator_name,
     function_name |-> cands[c].function_name,
     line_number |-> tree[cands[c].point].line,
     column_number |-> tree[cands[c].point].col,
     replaced |-> replace_node_in_tree(parsed, cands[c].point)]

\* what generate_mutants does after a candidate that failed, were the
\* failure to end the generation
AfterCandidateRaises(eff) ==
    IF eff = "ok" THEN "gen" ELSE "raised"

\* what generate_mutants does after a candidate: _create_mutant catches every
\* exception and returns None, and the loops go on
AfterCandidate(eff) == "gen"

\* one pass of generate_mutants' innermost loop: _create_mutant on candidate ci
CreateMutant ==
    /\ pc = "gen"
    /\ ci <= numCands
    /\ Len(mutants) < max_mutants
    /\ \E how \in Builds :
         LET reached == how \in {"ok", "create_exc", "write_exc"}
             \* _create_temp_file raises RuntimeError without a scratch directory
             eff == IF reached /\ ~temp_dir THEN "no_dir" ELSE how
             \* the replacement precedes ast.unparse and _create_temp_file;
             \* "build_exc" is deepcopy raising before it or unparse after it
             after == PositionCopied(parsed, cands[ci].point, cands[ci].shared)
         IN  /\ parsed' \in IF reached THEN {after}
                            ELSE IF how = "build_exc" THEN {parsed, after}
                            ELSE {parsed}
             /\ scratch' = TempFileWritten(ci, eff)
             /\ temp_files' = TempFileTracked(ci, eff)
             /\ mutants' \in IF eff = "ok"
                             THEN {Append(mutants, NewMutant(ci, id)) :
                                     id \in MutantIds}
                             ELSE {mutants}
             /\ pc' = AfterCandidate(eff)
    /\ ci' = ci + 1
    /\ UNCHANGED <<orig, inputVars, cands, opVars, session, temp_dir,
                   scratchExists, cleanups, runnerVars, legacyVars>>

\* generate_mutants returns: the loops ran out or mutant_count reached max_mutants
GenerateReturn ==
    /\ pc = "gen"
    /\ (ci > numCands \/ Len(mutants) >= max_mutants)
    /\ pc' = "generated"
    /\ UNCHANGED <<orig, inputVars, cands, parsed, opVars, engineVars,
                   runnerVars, legacyVars>>

\* a caller's own engine.cleanup()
Cleanup ==
    /\ pc \in {"generated", "done"}
    /\ cleanups < MaxCleanups
    /\ CleanupEffect
    /\ UNCHANGED <<pc, orig, inputVars, cands, parsed, opVars, session, ci,
                   mutants, runnerVars, legacyVars>>

\* the with-block is left, by return or by exception: __exit__ calls cleanup()
Exit ==
    /\ pc \in {"raised", "leaving"}
    /\ pc' = "done"
    /\ IF session = "open"
       THEN /\ CleanupEffect
            /\ session' = "exited"
       ELSE UNCHANGED <<session, temp_dir, temp_files, scratchExists, scratch,
                        cleanups>>
    /\ UNCHANGED <<orig, inputVars, cands, parsed, opVars, ci, mutants,
                   runnerVars, legacyVars>>

\* tool.py: "if not mutants: return" inside the with-block
NoMutants ==
    /\ pc = "generated"
    /\ mutants = <<>>
    /\ pc' = "leaving"
    /\ UNCHANGED <<orig, inputVars, cands, parsed, opVars, engineVars,
                   runnerVars, legacyVars>>

(***************************************************************************)
(* MutationTestRunner                                                      *)
(***************************************************************************)

\* source_dir, source_dir/tests, source_dir/test, ../tests, ../test
SearchDirs == {"src", "tests", "test", "ptests", "ptest"}

\* the files the search directories hold
OnDisk == disk \cup OtherFiles \cup {[dir |-> "src", stem |-> origName]}

\* test_<name>.py, <name>_test.py and the glob test*.py
PatternMatches(stem, source_name) ==
    \/ stem = <<"test", "_">> \o source_name
    \/ stem = source_name \o <<"_", "test">>
    \/ (Len(stem) >= 1 /\ stem[1] = "test")

\* _discover_test_files(original_file_path): list(set(test_files))
DiscoverTestFiles ==
    {f \in OnDisk : f.dir \in SearchDirs /\ PatternMatches(f.stem, origName)}

\* what a file on disk holds
ContentOf(f) ==
    IF f.dir = "src" /\ f.stem = origName THEN orig.content ELSE TestContent(f)

\* MutationResult (mutant_id 0 is "no_tests")
Result(id, st) == [mutant_id |-> id, status |-> st]

\* a run that forgets the dummy result
NoTestsResultsEmpty == <<>>

\* results after "if not test_files": the dummy result alone
NoTestsResults == <<Result(0, ERROR)>>

\* run_mutation_tests up to the loop: discovery, and the dummy result when
\* nothing was found
RunMutationTests ==
    /\ pc = "generated"
    /\ test_files' = DiscoverTestFiles
    /\ IF DiscoverTestFiles = {}
       THEN /\ results' = NoTestsResults
            /\ pc' = "collect"
       ELSE /\ results' = <<>>
            /\ pc' = "loop"
    /\ mi' = 1
    /\ outcomes' = <<>>
    /\ UNCHANGED <<orig, inputVars, cands, parsed, opVars, engineVars,
                   envDirs, envFiles, cwd, running, status, launches, report,
                   legacyVars>>

\* the mutant written over the original file instead of into the sandbox
MutantFilePathInPlace(i) == [where |-> "orig", n |-> i]

\* os.path.join(self.test_dir, os.path.basename(original_file_path))
MutantFilePath(i) == [where |-> "env", n |-> i]

\* mutant.temp_file_path and os.path.exists(mutant.temp_file_path)
TempFileExists(m) ==
    /\ m.temp_file_path # 0
    /\ scratchExists
    /\ m.temp_file_path \in DOMAIN scratch

\* what TestEnvironment.__enter__ puts at mutant_file_path: a copy of the
\* scratch file, or mutant.mutated_code when the scratch file is gone
MutantFileContent(m) ==
    IF TempFileExists(m) THEN scratch[m.temp_file_path] ELSE Fragment(m.cand)

\* a write of content c to path p
WriteEnv(p, c, dirs) ==
    IF p.where = "env"
    THEN [i \in dirs |->
            IF i = p.n THEN (origName :> c) @@ EmptyFiles
            ELSE envFiles[i]]
    ELSE [i \in dirs |-> IF i \in DOMAIN envFiles THEN envFiles[i] ELSE EmptyFiles]

WriteOrig(p, c) ==
    IF p.where = "orig"
    THEN [content |-> c, mtime |-> orig.mtime + 1]
    ELSE orig

\* an except branch that gives up the remaining mutants
SetupFailedEndsRun(how) ==
    /\ results' = Append(results, Result(mutants[mi].id, ERROR))
    /\ outcomes' = Append(outcomes, how)
    /\ mi' = Len(mutants) + 1
    /\ pc' = "loop"

\* _test_single_mutant's except branch: the result of a mutant whose
\* environment could not be set up
SetupFailed(how) ==
    /\ results' = Append(results, Result(mutants[mi].id, ERROR))
    /\ outcomes' = Append(outcomes, how)
    /\ mi' = mi + 1
    /\ pc' = "loop"

\* TestEnvironment.__enter__ for mutant mi.  An exception raised by __enter__
\* reaches _test_single_mutant's except branch without __exit__ being run.
EnvEnter ==
    /\ pc = "loop"
    /\ mi <= Len(mutants)
    /\ \E how \in {"ok", "mkdtemp_exc", "copy_exc"} :
         CASE how = "mkdtemp_exc" ->
                /\ SetupFailed(how)
                /\ UNCHANGED <<envDirs, envFiles, orig>>
           [] how = "copy_exc" ->
                /\ SetupFailed(how)
                /\ envDirs' = envDirs \cup {mi}
                /\ envFiles' = [i \in envDirs \cup {mi} |->
                                  IF i = mi THEN EmptyFiles ELSE envFiles[i]]
                /\ UNCHANGED orig
           [] OTHER ->
                /\ envDirs' = envDirs \cup {mi}
                /\ envFiles' = WriteEnv(MutantFilePath(mi),
                                        MutantFileContent(mutants[mi]),
                                        envDirs \cup {mi})
                /\ orig' = WriteOrig(MutantFilePath(mi),
                                     MutantFileContent(mutants[mi]))
                /\ pc' = "env"
                /\ UNCHANGED <<results, outcomes, mi>>
    /\ UNCHANGED <<inputVars, cands, parsed, opVars, engineVars, test_files,
                   cwd, running, status, launches, report, legacyVars>>

\* a discovered test file is removed by someone else while the mutants are
\* tested, before the files are copied into a sandbox
TestFileVanishes ==
    /\ pc = "env"
    /\ Cardinality(test_files \ OnDisk) < MaxVanished
    /\ \E f \in test_files \cap disk : disk' = disk \ {f}
    /\ UNCHANGED <<pc, orig, origName, parses, tree, target_functions,
                   operator_names, numCands, max_mutants, cands, parsed,
                   opVars, engineVars, runnerVars, legacyVars>>

\* the test files that are copied: "if os.path.exists(test_file)"
Copied == {f \in test_files : f \in OnDisk}

\* the sandbox after the copy loop: under each basename the content of the
\* file copied last, the order of list(set(...)) being arbitrary
CopyOutcomes(files) ==
    LET names == {f.stem : f \in Copied}
        last == {g \in [names -> Copied] : \A nm \in names : g[nm].stem = nm}
    IN  {[nm \in names \cup DOMAIN files |->
            IF nm \in names THEN ContentOf(g[nm]) ELSE files[nm]] : g \in last}

\* _execute_tests: the copy loop
CopyTestFiles ==
    /\ pc = "env"
    /\ \E how \in {"ok", "copy_exc"} :
         \E after \in CopyOutcomes(envFiles[mi]) :
            /\ envFiles' = [envFiles EXCEPT ![mi] = after]
            /\ IF how = "ok"
               THEN /\ pc' = "copied"
                    /\ UNCHANGED <<status, outcomes>>
               ELSE /\ pc' = "executed"
                    /\ status' = ERROR
                    /\ outcomes' = Append(outcomes, how)
    /\ UNCHANGED <<orig, inputVars, cands, parsed, opVars, engineVars,
                   test_files, mi, envDirs, cwd, running, results, launches,
                   report, legacyVars>>

Child(i) == [mutant |-> i, kind |-> "child"]
Descendant(i) == [mutant |-> i, kind |-> "descendant"]

\* os.chdir(test_dir) and subprocess.run starting the test command, which may
\* start processes of its own; a command that cannot be started raises, the
\* finally clause restores the working directory
Launch ==
    /\ pc = "copied"
    /\ \E how \in {"started", "forked", "launch_exc"} :
         IF how = "launch_exc"
         THEN /\ status' = ERROR
              /\ outcomes' = Append(outcomes, how)
              /\ pc' = "executed"
              /\ UNCHANGED <<cwd, running, launches>>
         ELSE /\ cwd' = mi
              /\ running' = running \cup {Child(mi)} \cup
                              (IF how = "forked" THEN {Descendant(mi)} ELSE {})
              /\ launches' = launches + 1
              /\ pc' = "running"
              /\ UNCHANGED <<status, outcomes>>
    /\ UNCHANGED <<orig, inputVars, cands, parsed, opVars, engineVars,
                   test_files, mi, envDirs, envFiles, results, report,
                   legacyVars>>

\* "except Exception" placed before "except subprocess.TimeoutExpired"
StatusOfTimeoutAsError(how) ==
    CASE how = "exit_zero" -> SURVIVED
      [] how = "exit_nonzero" -> KILLED
      [] OTHER -> ERROR

\* "if return_code == 0 ... else ...", and except subprocess.TimeoutExpired
StatusOf(how) ==
    CASE how = "exit_zero" -> SURVIVED
      [] how = "exit_nonzero" -> KILLED
      [] how = "timeout" -> TIMEOUT
      [] OTHER -> ERROR

\* the processes left when subprocess.run returns or raises TimeoutExpired:
\* the child has exited or has been killed (process.kill()), what it started
\* is not signalled and runs on unless it ended by itself
AfterRun(i, procs) ==
    {procs \ {Child(i)}, procs \ {Child(i), Descendant(i)}}

\* Test output: the lines of stdout + stderr, each line, stripped, the
\* sequence of its words (separated by single spaces)
Words == {"FAILED", "FAIL:", "t"}
OutputLines == UNION {[1..n -> Words] : n \in 0..MaxWords}
Outputs == {<<>>} \cup {<<l>> : l \in OutputLines}

\* whether marker + " " occurs in the line: the marker is a word that is not
\* the last one
HasMarker(line, marker) ==
    \E i \in 1..(Len(line) - 1) : line[i] = marker

\* where line.split(marker + " ") cuts first
FirstMarker(line, marker) ==
    CHOOSE i \in 1..(Len(line) - 1) :
        /\ line[i] = marker
        /\ \A j \in 1..(i - 1) : line[j] # marker

\* parts[1] of line.split(marker + " "): the words after the first marker up
\* to the next marker that is followed by a space, or to the end of the line
SecondPart(line, marker) ==
    LET i == FirstMarker(line, marker)
        stops == {j \in (i + 1)..(Len(line) - 1) : line[j] = marker}
        stop == IF stops = {} THEN Len(line) + 1
                ELSE CHOOSE j \in stops : \A k \in stops : j <= k
    IN  SubSeq(line, i + 1, stop - 1)

\* the names one line adds to failing_tests; raised is the IndexError of
\* parts[1].split()[0] on a part without a word
LineFailingTests(line) ==
    IF HasMarker(line, "FAILED")
    THEN IF SecondPart(line, "FAILED") = <<>>
         THEN [raised |-> TRUE, names |-> <<>>]
         ELSE [raised |-> FALSE, names |-> <<<<SecondPart(line, "FAILED")[1]>>>>]
    ELSE IF HasMarker(line, "FAIL:")
    THEN [raised |-> FALSE, names |-> <<SecondPart(line, "FAIL:")>>]
    ELSE [raised |-> FALSE, names |-> <<>>]

\* _extract_failing_tests(output)
RECURSIVE extract_failing_tests(_)
extract_failing_tests(output) ==
    IF output = <<>> THEN [raised |-> FALSE, names |-> <<>>]
    ELSE LET h == LineFailingTests(Head(output))
             r == extract_failing_tests(Tail(output))
         IN  [raised |-> h.raised \/ r.raised, names |-> h.names \o r.names]

\* what _execute_tests makes of a run: an exception raised while the output
\* is analysed reaches "except Exception" like any other
RunOutcome(how, output) ==
    IF how \in {"exit_zero", "exit_nonzero"}
       /\ extract_failing_tests(output).raised
    THEN "extract_exc"
    ELSE how

\* how subprocess.run can end
RunEnds == {"exit_zero", "exit_nonzero", "timeout"}

\* what _execute_tests can make of each end, over every output
RunOutcomes == [how \in RunEnds |-> {RunOutcome(how, output) : output \in Outputs}]

\* the working directory were the finally clause missing
ChdirBackMissing(original_cwd, test_dir) == test_dir

\* "finally: os.chdir(original_cwd)": the working directory after the run
ChdirBack(original_cwd, test_dir) == original_cwd

\* subprocess.run ends: the command exits or the timeout expires; the finally
\* clause restores the working directory
Finish ==
    /\ pc = "running"
    /\ \E how \in RunEnds :
         \E outcome \in RunOutcomes[how] :
            /\ status' = StatusOf(outcome)
            /\ outcomes' = Append(outcomes, how)
    /\ \E left \in AfterRun(mi, running) : running' = left
    /\ cwd' = ChdirBack(0, cwd)
    /\ pc' = "executed"
    /\ UNCHANGED <<orig, inputVars, cands, parsed, opVars, engineVars,
                   test_files, mi, envDirs, envFiles, results, launches,
                   report, legacyVars>>

\* shutil.rmtree(test_dir)
Rmtree(dirs, i) == dirs \ {i}

\* _test_single_mutant returns the MutationResult through
\* TestEnvironment.__exit__, and run_mutation_tests appends it
EnvExit ==
    /\ pc = "executed"
    /\ results' = Append(results, Result(mutants[mi].id, status))
    /\ envDirs' = Rmtree(envDirs, mi)
    /\ envFiles' = [i \in Rmtree(envDirs, mi) |-> envFiles[i]]
    /\ status' = "none"
    /\ mi' = mi + 1
    /\ pc' = "loop"
    /\ UNCHANGED <<orig, inputVars, cands, parsed, opVars, engineVars,
                   test_files, cwd, running, outcomes, launches, report,
                   legacyVars>>

\* run_mutation_tests returns MutationTestReport(total_mutants=len(mutants), ...)
ReturnReport ==
    /\ \/ pc = "collect"
       \/ pc = "loop" /\ mi > Len(mutants)
    /\ report' = [total_mutants |-> Len(mutants), results |-> results,
                  made |-> TRUE]
    /\ pc' = "leaving"
    /\ UNCHANGED <<orig, inputVars, cands, parsed, opVars, engineVars,
                   test_files, mi, envDirs, envFiles, cwd, running, status,
                   results, outcomes, launches, legacyVars>>

(***************************************************************************)
(* MutationTestReport                                                      *)
(***************************************************************************)

CountStatus(rs, st) == Len(SelectSeq(rs, LAMBDA r : r.status = st))

killed_mutants(rep) == CountStatus(rep.results, KILLED)
survived_mutants(rep) == CountStatus(rep.results, SURVIVED)
timeout_mutants(rep) == CountStatus(rep.results, TIMEOUT)
error_mutants(rep) == CountStatus(rep.results, ERROR)

\* killed + survived
ValidMutants(rep) == killed_mutants(rep) + survived_mutants(rep)

\* a score over all mutants, timeouts and errors included
mutation_scoreOverTotal(rep) ==
    IF rep.total_mutants = 0 THEN [num |-> 0, den |-> 1]
    ELSE [num |-> killed_mutants(rep) * 100, den |-> rep.total_mutants]

\* mutation_score, a float in the code, kept as the exact fraction num/den
\* of the percentage: (killed / valid) * 100.0 is (killed * 100) / valid
mutation_score(rep) ==
    IF rep.total_mutants = 0 THEN [num |-> 0, den |-> 1]
    ELSE IF ValidMutants(rep) = 0 THEN [num |-> 0, den |-> 1]
    ELSE [num |-> killed_mutants(rep) * 100, den |-> ValidMutants(rep)]

(***************************************************************************)
(* MutationEngine.run_tests_against_mutation, called for each mutation by  *)
(* MutationTestExecutor.run_full_mutation_testing                          *)
(***************************************************************************)

InitLegacy ==
    /\ InitCommon
    /\ origName = <<"calc">>
    /\ tree = SrcEmpty
    /\ target_functions = {}
    /\ operator_names = {}
    /\ numCands = 0
    /\ node = NoNode
    /\ max_mutants = 0
    /\ pc = "off"
    /\ lpc = "ready"

\* MutationEngine.generate_mutations, which returns [] when ast.parse raises,
\* and all_mutations[:max_mutations]
LegacyGenerate ==
    /\ lpc = "ready"
    /\ \E n \in (IF parses THEN 0..MaxMutations ELSE {0}) : lmutations' = n
    /\ lpc' = "test"
    /\ UNCHANGED <<pc, orig, inputVars, cands, parsed, opVars, engineVars,
                   runnerVars, lidx, backup, lpassed, lcommand, lresults>>

\* original_content = self.target_file.read_text();
\* self.target_file.write_text(mutated_code)
LegacyWriteMutated ==
    /\ lpc = "test"
    /\ lidx <= lmutations
    /\ backup' = [set |-> TRUE, content |-> orig.content]
    /\ orig' = [content |-> FullSource(lidx), mtime |-> orig.mtime + 1]
    /\ lpc' = "written"
    /\ UNCHANGED <<pc, inputVars, cands, parsed, opVars, engineVars,
                   runnerVars, lmutations, lidx, lpassed, lcommand,
                   lresults>>

\* "passed" of the dict returned: returncode == 0, None without a test
\* command, False on a timeout or an exception
LegacyPassed(how) ==
    CASE how = "exit_zero" -> "true"
      [] how = "no_command" -> "none"
      [] OTHER -> "false"

\* _find_test_command: test_<stem>.py, <stem>_test.py or test<stem>.py next
\* to the target file
LegacyTestFileFound ==
    \E f \in OnDisk :
        /\ f.dir = "src"
        /\ f.stem \in {<<"test", "_">> \o origName, origName \o <<"_", "test">>,
                       <<"test">> \o origName}

\* what subprocess.run(..., timeout=30) can come to; without a test command,
\* given or found (a test file, or a __main__ block in the target), none is run
LegacyRuns ==
    {"exit_zero", "exit_nonzero", "timeout", "exception"} \cup
        (IF lcommand \/ LegacyTestFileFound THEN {} ELSE {"no_command"})

\* the body of the try block after the write
LegacyRunTests ==
    /\ lpc = "written"
    /\ \E how \in LegacyRuns : lpassed' = LegacyPassed(how)
    /\ lpc' = "ran"
    /\ UNCHANGED <<pc, orig, inputVars, cands, parsed, opVars, engineVars,
                   runnerVars, lmutations, lidx, backup, lcommand, lresults>>

\* the finally clause: self.target_file.write_text(original_content); then
\* run_full_mutation_testing records "killed" if passed == False else "survived"
LegacyRestore ==
    /\ lpc = "ran"
    /\ orig' = IF backup.set
               THEN [content |-> backup.content, mtime |-> orig.mtime + 1]
               ELSE orig
    /\ lresults' = Append(lresults,
                          IF lpassed = "false" THEN KILLED ELSE SURVIVED)
    /\ backup' = [set |-> FALSE, content |-> Original]
    /\ lpassed' = "none"
    /\ lidx' = lidx + 1
    /\ lpc' = "test"
    /\ UNCHANGED <<pc, inputVars, cands, parsed, opVars, engineVars,
                   runnerVars, lmutations, lcommand>>

\* run_full_mutation_testing returns
LegacyReturn ==
    /\ lpc = "test"
    /\ lidx > lmutations
    /\ lpc' = "done"
    /\ UNCHANGED <<pc, orig, inputVars, cands, parsed, opVars, engineVars,
                   runnerVars, lmutations, lidx, backup, lpassed, lcommand,
                   lresults>>

NextLegacy ==
    \/ LegacyGenerate
    \/ LegacyWriteMutated
    \/ LegacyRunTests
    \/ LegacyRestore
    \/ LegacyReturn

SpecLegacy == InitLegacy /\ [][NextLegacy]_vars

(***************************************************************************)
(* Properties                                                              *)
(***************************************************************************)

\* the original file as it was before the run: never written
Untouched == [content |-> Original, mtime |-> 0]

\* indices of the results of rs with status st
WithStatus(rs, st) == {i \in 1..Len(rs) : rs[i].status = st}

\* C1: in every reachable state of a mutation run the original file holds
\* its original content and has never been written, whichever component runs
\* the tests (here MutationEngine.run_tests_against_mutation).
OriginalNeverWritten == orig = Untouched

\* C2: once a SafeMutationEngine session has been left, the original file's
\* content and modification time are those before the session, whatever
\* happened to the mutants and also when generation raised.
SessionKeepsOriginal ==
    session = "exited" => orig = Untouched

\* a session left after a Timeout and an Error result
SessionKeepsOriginalWitness ==
    /\ session = "exited"
    /\ report.made
    /\ WithStatus(results, TIMEOUT) # {}
    /\ WithStatus(results, ERROR) # {}

\* C3: a cleanup() call leaves no scratch file and no scratch directory, and
\* a cleanup() call that follows another changes neither the engine nor the
\* scratch directory.
CleanupRemovesAll ==
    [][cleanups' = cleanups + 1 =>
          /\ DOMAIN scratch' = {}
          /\ ~scratchExists'
          /\ (cleanups >= 1 =>
                UNCHANGED <<temp_dir, temp_files, scratchExists, scratch>>)]_vars

\* C4: once the session has been left, by return or by exception, the scratch
\* directory created on entry and everything in it are gone.
SessionLeavesNothing ==
    session = "exited" => (~scratchExists /\ DOMAIN scratch = {})

\* the status the runner is to give to what happened to a mutant
Expected(how) ==
    IF how = "exit_nonzero" THEN KILLED
    ELSE IF how = "exit_zero" THEN SURVIVED
    ELSE IF how = "timeout" THEN TIMEOUT
    ELSE ERROR

\* C5: a result, once recorded, never changes, and the result recorded for a
\* tested mutant carries one of the four statuses: Killed for a non-zero exit,
\* Survived for a zero exit, Timeout for an expired timeout, Error for an
\* exception in sandbox setup, file copy or process launch.
StatusTerminal ==
    [][/\ \A i \in 1..Len(results) :
             i <= Len(results') /\ results'[i] = results[i]
       /\ (Len(results') > Len(results) /\ pc' # "collect") =>
             LET n == Len(results')
             IN  /\ n = Len(results) + 1
                 /\ Len(outcomes') = n
                 /\ results'[n].mutant_id = mutants[n].id
                 /\ results'[n].status \in {KILLED, SURVIVED, TIMEOUT, ERROR}
                 /\ results'[n].status = Expected(outcomes'[n])]_vars

\* both mutants tested, one timed out and one killed
StatusTerminalWitness ==
    /\ Len(results) = 2
    /\ outcomes[1] = "timeout" /\ results[1].status = TIMEOUT
    /\ outcomes[2] = "exit_nonzero" /\ results[2].status = KILLED

\* C6: the mutation score of a report is killed / (killed + survived) * 100,
\* Timeout and Error results left out of the denominator; it is 0 when
\* killed + survived = 0 and lies between 0 and 100.
ScoreIsKilledOverValid ==
    report.made =>
        LET k == Cardinality(WithStatus(report.results, KILLED))
            s == Cardinality(WithStatus(report.results, SURVIVED))
            score == mutation_score(report)
        IN  /\ score.den > 0
            /\ score.num * (k + s) = k * 100 * score.den
            /\ (k + s = 0 => score.num = 0)
            /\ 0 <= score.num /\ score.num <= 100 * score.den

\* a report with a Killed and a Timeout result
ScoreIsKilledOverValidWitness ==
    /\ report.made
    /\ WithStatus(report.results, KILLED) # {}
    /\ WithStatus(report.results, TIMEOUT) # {}

\* C7: when discovery finds no test file, no test command is launched and
\* the report holds exactly the one synthetic Error result, no mutant Killed
\* or Survived, and the score 0.
NoTestsOneError ==
    (report.made /\ DiscoverTestFiles = {}) =>
        /\ launches = 0
        /\ Len(report.results) = 1
        /\ report.results[1] = [mutant_id |-> 0, status |-> ERROR]
        /\ WithStatus(report.results, KILLED) = {}
        /\ WithStatus(report.results, SURVIVED) = {}
        /\ mutation_score(report).num = 0

\* two mutants generated, no test file around the original
NoTestsOneErrorWitness ==
    /\ report.made
    /\ DiscoverTestFiles = {}
    /\ Len(mutants) = 2

\* C8: while the test command of a mutant runs, the sandbox holds under the
\* original file's basename that mutant's entire mutated source (no copy step
\* has replaced it), and under the basename of every discovered test file a
\* copy of a discovered test file of that name.
SandboxHoldsMutant ==
    pc = "running" =>
        /\ origName \in DOMAIN envFiles[mi]
        /\ envFiles[mi][origName] = FullSource(mutants[mi].cand)
        /\ \A f \in test_files :
              /\ f.stem \in DOMAIN envFiles[mi]
              /\ f.stem # origName =>
                    \E g \in test_files :
                        g.stem = f.stem /\ envFiles[mi][f.stem] = ContentOf(g)

\* C9: the sandbox directory of every mutant whose result has been returned
\* is gone, also when setting it up, copying into it or launching raised.
SandboxRemoved ==
    \A i \in envDirs : i > Len(results)

\* C10: once the call has returned for a mutant whose test command timed
\* out, the mutant is classified Timeout and no process the command started,
\* child or descendant, is still running.
TimeoutKillsProcessTree ==
    \A i \in 1..Len(outcomes) :
        outcomes[i] = "timeout" =>
           /\ (i <= Len(results) => results[i].status = TIMEOUT)
           /\ \A p \in running : p.mutant # i

Next ==
    \/ Enter
    \/ AnalyzeFile
    \/ CreateMutant
    \/ GenerateReturn
    \/ Cleanup
    \/ NoMutants
    \/ RunMutationTests
    \/ EnvEnter
    \/ CopyTestFiles
    \/ Launch
    \/ Finish
    \/ EnvExit
    \/ ReturnReport
    \/ Exit

Spec == Init /\ [][Next]_vars

(***************************************************************************)
(* generate_mutants alone, on every file and every filter of the model.    *)
(***************************************************************************)
InitGen ==
    /\ InitCommon
    /\ origName = <<"calc">>
    /\ disk = {}
    /\ lcommand = FALSE
    /\ node = NoNode
    /\ pc = "ready"
    /\ lpc = "off"

NextGen ==
    \/ Enter
    \/ AnalyzeFile
    \/ CreateMutant
    \/ GenerateReturn
    \/ NoMutants
    \/ Exit

SpecGen == InitGen /\ [][NextGen]_vars

(***************************************************************************)
(* The operators alone, each applied to every node of a bounded set.       *)
(***************************************************************************)
\* characters of the string literals
StrAlphabet == {"a", "x", "A", "X", "1"}

\* the string literals: every string up to MaxStrLen, and the text "mutant"
StrLiterals ==
    UNION {[1..k -> StrAlphabet] : k \in 0..MaxStrLen} \cup {MutantText}

CompareOps == {"Eq", "NotEq", "Lt", "LtE", "Gt", "GtE", "Is", "In"}

\* the nodes the operators are applied to
OperatorInputs ==
    {Constant(IntV(n)) : n \in -MaxInt..MaxInt}
    \cup {Constant(StrV(str)) : str \in StrLiterals}
    \cup {Constant(BoolV(b)) : b \in BOOLEAN}
    \cup {Compare(Name("a"), <<op>>, <<Name("b")>>) : op \in CompareOps}
    \cup {Compare(Name("a"), <<"Lt", "Lt">>, <<Name("b"), Name("c")>>)}
    \cup {BinOp(Name("a"), op, Name("b")) :
            op \in DOMAIN ArithmeticMutations \cup {"BitAnd"}}
    \cup {BoolOp(op, <<Name("a"), Name("b")>>) : op \in {"And", "Or"}}
    \cup {UnaryOp(op, Name("a")) : op \in {"Not", "USub", "UAdd", "Invert"}}
    \cup {Stmt(ty, <<Name("a")>>) :
            ty \in {"Return", "Assign", "AugAssign", "Expr"}}
    \cup {Pass, Name("a")}

InitOps ==
    /\ InitCommon
    /\ origName = <<"calc">>
    /\ parses
    /\ tree = SrcEmpty
    /\ target_functions = {}
    /\ operator_names = {}
    /\ disk = {}
    /\ max_mutants = 0
    /\ lcommand = FALSE
    /\ node \in OperatorInputs
    /\ pc = "off"
    /\ lpc = "off"

\* operator.mutate(node), for the operator named o
OperatorMutate(o) ==
    /\ pc = "off"
    /\ lpc = "off"
    /\ applied = "none"
    /\ applied' = o
    /\ mutated' \in Mutate(o, node)
    /\ UNCHANGED <<pc, orig, inputVars, cands, parsed, engineVars,
                   runnerVars, legacyVars, node>>

NextOps == \E o \in Range(MUTATION_OPERATORS) : OperatorMutate(o)

SpecOps == InitOps /\ [][NextOps]_vars

(***************************************************************************)
(* Properties of the operators.                                            *)
(***************************************************************************)
\* the elements of a list are pairwise different
NoDuplicates(xs) == \A i, j \in DOMAIN xs : xs[i] = xs[j] => i = j

\* C15: for every integer literal n, NumberMutator.mutate returns Constants
\* whose values are exactly {n+1, n-1, 0, 1, -1} without n, each once; a
\* boolean literal gets no variant.
NumberVariantsExact ==
    applied = "Number" /\ node.type = "Constant" =>
        IF node.value.k = "int"
        THEN LET n == node.value.i
             IN  /\ {mutated[i].value : i \in DOMAIN mutated}
                      = {IntV(v) : v \in {n + 1, n - 1, 0, 1, -1} \ {n}}
                 /\ NoDuplicates(mutated)
                 /\ \A i \in DOMAIN mutated : mutated[i].type = "Constant"
        ELSE node.value.k = "bool" => mutated = <<>>

NumberVariantsExactWitness ==
    /\ applied = "Number"
    /\ node = Constant(IntV(1))
    /\ {mutated[i].value.i : i \in DOMAIN mutated} = {0, 2, -1}

\* C16: on a comparison with one operator, ComparisonOperatorMutator.mutate
\* returns one variant per alternate of the table (== gives !=, <, >; != gives
\* == alone; <, <=, >, >= give three each), never the original operator, and
\* the operands of every variant are those of the original.
ComparisonVariantsExact ==
    (/\ applied = "ComparisonOperator"
     /\ node.type = "Compare"
     /\ Len(node.ops) = 1
     /\ node.ops[1] \in {"Eq", "NotEq", "Lt", "LtE", "Gt", "GtE"}) =>
        LET op == node.ops[1]
            alts == {mutated[i].ops : i \in DOMAIN mutated}
        IN  /\ op = "Eq" => alts = {<<"NotEq">>, <<"Lt">>, <<"Gt">>}
            /\ op = "NotEq" => alts = {<<"Eq">>}
            /\ op = "Lt" => alts = {<<"LtE">>, <<"Gt">>, <<"Eq">>}
            /\ op = "LtE" => alts = {<<"Lt">>, <<"GtE">>, <<"NotEq">>}
            /\ op = "Gt" => alts = {<<"GtE">>, <<"Lt">>, <<"Eq">>}
            /\ op = "GtE" => alts = {<<"Gt">>, <<"LtE">>, <<"NotEq">>}
            /\ <<op>> \notin alts
            /\ NoDuplicates(mutated)
            /\ \A i \in DOMAIN mutated :
                  /\ mutated[i].type = "Compare"
                  /\ mutated[i].kids = node.kids

ComparisonVariantsExactWitness ==
    /\ applied = "ComparisonOperator"
    /\ node = Compare(Name("a"), <<"NotEq">>, <<Name("b")>>)
    /\ mutated = <<Compare(Name("a"), <<"Eq">>, <<Name("b")>>)>>

\* C17: for every string literal, StringMutator.mutate returns at least one
\* and at most 3 variants, pairwise different and none equal to the original.
StringVariantsBounded ==
    applied = "String" /\ node.type = "Constant" /\ node.value.k = "str" =>
        /\ Len(mutated) >= 1
        /\ Len(mutated) <= 3
        /\ NoDuplicates(mutated)
        /\ \A i \in DOMAIN mutated :
              /\ mutated[i].type = "Constant"
              /\ mutated[i].value.k = "str"
              /\ mutated[i].value.s # node.value.s

StringVariantsBoundedWitness ==
    /\ applied = "String"
    /\ node = Constant(StrV(MutantText))
    /\ Len(mutated) = 3

(***************************************************************************)
(* The run of the driver with the steps it can take always taken in the    *)
(* end: every call returns or raises, and a test command ends by itself or *)
(* by its timeout.                                                         *)
(***************************************************************************)
\* the files the runner's properties are checked on: none, one and two
\* candidates
RunTrees == {SrcEmpty, SrcReturn, SrcNot}

\* the driver on a file calc.py that parses
InitRun ==
    /\ Init
    /\ parses
    /\ origName = <<"calc">>
    /\ tree \in RunTrees

SpecFair == InitRun /\ [][Next]_vars /\ WF_vars(Next)

\* the mutants are tested one after the other, results in the mutants' order
TestedInOrder ==
    test_files # {} =>
        /\ pc \in {"loop", "env", "copied", "running", "executed"} =>
              Len(results) = mi - 1
        /\ pc \in {"env", "copied", "running", "executed"} =>
              mi \in 1..Len(mutants)
        /\ Len(results) <= Len(mutants)
        /\ \A i \in 1..Len(results) : results[i].mutant_id = mutants[i].id
        /\ report.made =>
              /\ report.results = results
              /\ Len(results) = Len(mutants)

\* C11: run_mutation_tests returns for every list of mutants; when test files
\* exist the mutants are tested one at a time, each to its result before the
\* next is started, and the report holds one result per mutant in the
\* mutants' order, whatever the status of the earlier ones.
RunReturnsOneResultPerMutant ==
    /\ []TestedInOrder
    /\ (pc \in {"loop", "collect"}) ~> report.made

RunReturnsOneResultPerMutantWitness ==
    /\ report.made
    /\ test_files # {}
    /\ Len(report.results) = 2
    /\ report.results[1].status \in {ERROR, TIMEOUT}
    /\ outcomes[2] = "exit_zero" /\ report.results[2].status = SURVIVED

(***************************************************************************)
(* Properties of generate_mutants.                                         *)
(***************************************************************************)
\* C12: generate_mutants never holds more than max_mutants mutants and the
\* scratch directory never holds more than max_mutants files; with
\* max_mutants = 0 there is no mutant and no file.
WithinMaxMutants ==
    /\ Len(mutants) <= max_mutants
    /\ Cardinality(DOMAIN scratch) <= max_mutants

\* C13: when the original file does not parse, generation raises: no list of
\* mutants is returned, no mutant and no scratch file is made, and the run
\* goes no further than the error.
ParseErrorRaises ==
    ~parses =>
        /\ pc \in {"off", "ready", "raised", "done"}
        /\ lpc \in {"off", "ready"}
        /\ mutants = <<>>
        /\ DOMAIN scratch = {}
        /\ ~report.made

\* C14: a candidate whose building fails (copy, replacement, serialization,
\* scratch-file write) is skipped and nothing else: generate_mutants goes on
\* with the next candidate without raising, every candidate whose scratch
\* file was written whole becomes a mutant, and generate_mutants returns
\* only when the candidates ran out or max_mutants is reached.
FailedCandidateSkipped ==
    [][/\ (pc = "gen" /\ ci' = ci + 1) =>
            /\ pc' = "gen"
            /\ \/ mutants' = mutants
               \/ /\ Len(mutants') = Len(mutants) + 1
                  /\ SubSeq(mutants', 1, Len(mutants)) = mutants
                  /\ mutants'[Len(mutants')].cand = ci
            /\ (ci \in DOMAIN scratch' /\ scratch'[ci] = FullSource(ci)) =>
                  mutants' # mutants
       /\ (pc = "gen" /\ pc' = "generated") =>
            /\ (ci > numCands \/ Len(mutants) >= max_mutants)
            /\ mutants' = mutants
      ]_vars

FailedCandidateSkippedWitness ==
    /\ pc = "generated"
    /\ 1 \in DOMAIN scratch /\ scratch[1] = Partial(1)
    /\ Len(mutants) = 1
    /\ mutants[1].cand = 2

\* C18: with target_functions given, every mutant's function_name is one of
\* them and no node outside a function is mutated; with operator_names
\* given, every mutant's operator_name is one of them.
FiltersRespected ==
    \A i \in DOMAIN mutants :
        /\ target_functions # {} =>
              /\ mutants[i].function_name \in target_functions
              /\ tree[cands[mutants[i].cand].point].funcs # <<>>
        /\ operator_names # {} =>
              mutants[i].operator_name \in operator_names

FiltersRespectedWitness ==
    /\ tree = SrcFunctions
    /\ target_functions = {"f"}
    /\ operator_names = {"ConditionalBoundary", "UnaryOperator"}
    /\ pc = "generated"
    /\ ci > numCands
    /\ Len(mutants) = 1
    /\ mutants[1].function_name = "f"
    /\ mutants[1].operator_name = "ConditionalBoundary"

\* C19: the mutants of one generate_mutants call have pairwise different
\* ids.
DistinctIds ==
    \A i, j \in DOMAIN mutants : mutants[i].id = mutants[j].id => i = j

\* whether Python parses a scratch file: the whole source written by
\* ast.unparse for the tree with the candidate's replacement in place
SourceParses(content) ==
    /\ content.kind = "full"
    /\ ParsesReplaced(tree[cands[content.n].point],
                      cands[content.n].mutated_node)

\* C20: for a source file that parses, the scratch file of every mutant
\* generate_mutants returns parses too.
ScratchFilesParse ==
    parses =>
        \A i \in DOMAIN mutants :
            mutants[i].temp_file_path \in DOMAIN scratch =>
                SourceParses(scratch[mutants[i].temp_file_path])

(***************************************************************************)
(* The report's counts, the working directory, the scratch files           *)
(***************************************************************************)

\* C27: in every report run_mutation_tests returns, killed_mutants +
\* survived_mutants + timeout_mutants + error_mutants equals total_mutants.
ReportCountsAddUp ==
    report.made =>
        killed_mutants(report) + survived_mutants(report)
          + timeout_mutants(report) + error_mutants(report)
            = report.total_mutants

\* C29: whenever _execute_tests has returned for a mutant, whatever its
\* status, the working directory is the one before the call (0); it is the
\* mutant's sandbox only while that mutant's test command runs.
WorkingDirectoryRestored ==
    /\ cwd = IF pc = "running" THEN mi ELSE 0
    /\ pc = "running" => mi \in envDirs

\* two mutants tested, the first timed out and the second was killed, and
\* the working directory is back where it was
WorkingDirectoryRestoredWitness ==
    /\ pc = "executed"
    /\ mi = 2
    /\ Len(outcomes) = 2
    /\ outcomes[1] = "timeout"
    /\ status = KILLED
    /\ cwd = 0

\* C30: every scratch file the engine has created is tracked in temp_files
\* while the scratch directory is the engine's, and an engine that was never
\* entered creates no file and returns no mutant.
ScratchFilesTracked ==
    /\ temp_dir => DOMAIN scratch \subseteq temp_files
    /\ session = "none" => (DOMAIN scratch = {} /\ mutants = <<>>)

(***************************************************************************)
(* The node a mutant replaces, the tree the engine parsed, the function a  *)
(* point belongs to, repeated runs, repeated mutants                       *)
(***************************************************************************)

\* C21: the scratch file of every mutant is the original with the node of
\* its mutation point replaced and no other: the replacement goes to the
\* tree position of that node, also when the node is the leftmost operand of
\* a node of its own type that starts at the same line and column.
ReplacementAtMutationPoint ==
    \A i \in DOMAIN mutants :
        mutants[i].replaced = cands[mutants[i].cand].point

\* C22: generating mutants leaves the parsed tree of the original as it was,
\* every node with its fields, lineno and col_offset, and no mutated copy
\* holds a node object of the original tree.
OriginalTreeUntouched ==
    (parses /\ pc # "ready") =>
        /\ parsed = tree
        /\ \A i \in DOMAIN mutants : ~cands[mutants[i].cand].shared

\* C23: every mutation point carries the name of the innermost function
\* around its node ("module_level" outside every function), and
\* target_functions is tested against that name: with target_functions
\* given, the points found are the mutable nodes whose innermost function is
\* one of them.
AttributedToInnermost ==
    (parses /\ pc # "ready") =>
        /\ \A c \in DOMAIN cands :
              /\ cands[c].function_name
                    = InnermostFunctionName(tree[cands[c].point])
              /\ target_functions # {} =>
                    InnermostFunctionName(tree[cands[c].point])
                        \in target_functions
        /\ \A i \in 1..Len(tree) :
              (/\ target_functions # {}
               /\ InnermostFunctionName(tree[i]) \in target_functions
               /\ FilteredOperators(tree[i].node, operator_names) # <<>>)
                  => \E c \in DOMAIN cands : cands[c].point = i

\* C26: two runs of generate_mutants on the same file with the same
\* target_functions, operator_names and max_mutants give the same mutants
\* in the same order: the candidates a run meets up to max_mutants are those
\* every other run with these arguments meets.
GenerationReproducible ==
    [][(pc = "ready" /\ pc' = "gen") =>
          \A l \in CandidateLists(tree,
                                  find_mutation_points(tree, target_functions),
                                  operator_names) :
             Prefix(l, max_mutants) = Prefix(cands', max_mutants)]_vars

\* the source text of a mutant's scratch file: ast.unparse of the copy of
\* the tree, given by the entry replaced and the node put in its place
MutatedSource(m) ==
    [at |-> m.replaced, by |-> cands[m.cand].mutated_node]

\* C28: no two mutants of one generate_mutants call have the same mutated
\* source text.
DistinctMutatedSources ==
    \A i, j \in DOMAIN mutants :
        MutatedSource(mutants[i]) = MutatedSource(mutants[j]) => i = j

(***************************************************************************)
(* The status and the test output, test files that vanish                  *)
(***************************************************************************)

\* C24: the status of a mutant whose test command ran to its end depends on
\* the exit code alone, whatever the captured output holds: exit code 0
\* gives Survived and any other exit code gives Killed.
StatusFollowsExitCode ==
    [][(pc = "running" /\ pc' = "executed") =>
          LET how == outcomes'[Len(outcomes')]
          IN  /\ how = "exit_zero" => status' = SURVIVED
              /\ how = "exit_nonzero" => status' = KILLED]_vars

\* the driver on calc.py while somebody else removes test files
NextVanish ==
    \/ Next
    \/ TestFileVanishes

SpecVanish == InitRun /\ [][NextVanish]_vars

\* C25: when a discovered test file is not there any more as the test files
\* are copied into a mutant's sandbox, that mutant's status is Error.
MissingTestFileIsError ==
    [][(pc = "env" /\ pc' # "env" /\ test_files \ OnDisk # {}) =>
          (pc' = "executed" /\ status' = ERROR)]_vars

====
